---- MODULE Spec2Model ----
(***************************************************************************)
(* Model of tools/ai_autobuilder.py: the build -> diagnose -> patch ->     *)
(* rebuild loop of main(), the model client call_llm() with its primary    *)
(* and fallback backends, the diff extractor and the patch applier.        *)
(*                                                                         *)
(* Every external command (build, git, HTTP request, llama-cli) is one     *)
(* step whose outcome is chosen nondeterministically.  The working tree is *)
(* the content of one tracked file; a diff is a pair <<old, new>>.         *)
(***************************************************************************)
EXTENDS Integers, Sequences, FiniteSets, TLC

\* ------------------------------------------------------------------ bounds
MaxBudget == 2          \* largest AI_BUILDER_ATTEMPTS value explored
MaxContent == 1         \* file contents are 0..MaxContent
MaxLines == 3           \* longest model response, in lines
MaxTextLines == 4       \* longest text handed to the diff extractor on its own
MaxOutput == 3          \* most lines one build writes
PipeCap == 2            \* lines the pipe holds before the build process blocks

\* ------------------------------------------------------- program constants
HTTP_ERROR_FLOOR == 400

\* ------------------------------------------------------------ value spaces
NoInt == 0 - 1          \* "no value" where the value is a number
Content == 0..MaxContent
Budgets == (0 - 1)..MaxBudget
Providers == {"openai", "llama", "other"}
Fallbacks == {"llama", "off"}
ExitCodes == {0, 1}
Statuses == {200, HTTP_ERROR_FLOOR - 1, HTTP_ERROR_FLOOR, 429}

\* A text is a sequence of lines and whether the last line ends in "\n".
\*   "minus"  "--- <token>"      "plus"  "+++ <token>"
\*   "blank"  an empty line
\*   "text"   any other line: prose, or in a diff a hunk header or hunk line
LineKinds == {"text", "minus", "plus", "blank"}
RECURSIVE SeqsUpTo(_, _)
SeqsUpTo(S, n) ==
    IF n = 0 THEN {<<>>}
    ELSE LET shorter == SeqsUpTo(S, n - 1)
         IN  shorter \cup {Append(s, x) : s \in {t \in shorter : Len(t) = n - 1}, x \in S}
Texts == {[lines |-> l, nl |-> b] : l \in SeqsUpTo(LineKinds, MaxLines), b \in BOOLEAN}

EmptyText == [lines |-> <<>>, nl |-> FALSE]
NoPrompt == [attempt |-> 0, tail |-> {}]

\* The diff from content a to content b (git diff): empty when they are equal.
\* No commit at all (a = NoInt) counts as content of its own.
Diff(a, b) == IF a = b THEN <<>> ELSE <<a, b>>
Hunks == {<<a, b>> : a \in Content, b \in Content} \ {<<c, c>> : c \in Content}

\* Exceptions the model client can raise.
NoExc == [type |-> "none", msg |-> "none"]
OpenaiError == [type |-> "RuntimeError", msg |-> "openai_error"]
LlamaFailed == [type |-> "RuntimeError", msg |-> "llama_failed"]
UnknownProvider == [type |-> "RuntimeError", msg |-> "Unknown PROVIDER"]
MissingKey == [type |-> "KeyError", msg |-> "OPENAI_API_KEY"]
RequestFailed == [type |-> "RequestException", msg |-> "timeout"]
BadBody == [type |-> "KeyError", msg |-> "choices"]

VARIABLES
    PROVIDER,           \* configuration, fixed at start
    FALLBACK_PROVIDER,
    MAX_ATTEMPTS,
    hasKey,             \* OPENAI_API_KEY is set
    pc,                 \* position of main()
    gitExists,          \* PROJECT_ROOT/.git exists
    head,               \* content committed at HEAD (NoInt: no commit)
    tree,               \* content of the working tree
    snapWritten,        \* .pre_ai_fix.patch exists
    snapshot,           \* .pre_ai_fix.patch: <<>> (empty diff) or <<a, b>>
    buildLog,           \* build.log: the builds whose output it holds
    code,               \* last exit code of run_build (NoInt before the first)
    attempts,           \* attempts
    prompt,             \* prompt of the current iteration
    llm_out,            \* response text awaiting extraction (empty otherwise)
    diff,               \* extracted diff of the current iteration
    applied,            \* result of apply_patch in the current iteration: "none", "true", "false"
    exc,                \* exception in flight / that ended the run
    exit,               \* process exit code (NoInt while running)
    ending,             \* how the run ended ("none" while running)
    \* history, per run
    builds,             \* executions of the build command
    queries,            \* calls of call_llm
    applyCmds,          \* executions of the patch-apply command
    initSnapshots,      \* "initial snapshot" commits
    \* history, per query / per apply_patch call
    openaiCalls,        \* calls of _call_openai in the current query
    llamaCalls,         \* calls of _call_llama in the current query
    openaiPrompt,       \* prompt handed to _call_openai
    llamaPrompt,        \* prompt handed to _call_llama
    primaryExc,         \* what _call_openai raised in the current query (NoExc: nothing)
    answeredBy,         \* backend whose output call_llm returned ("none": no output)
    extracted,          \* outcome of the last extraction: "none", "absent", "found"
    snapInCall,         \* the snapshot file was written in the current apply_patch call
    applyRc,            \* outcome of the patch-apply command: "none", "ok", "fail", "raised"
    preTree,            \* working tree right before the patch-apply command
    cmds,               \* commands the current apply_patch call has run, in order
    commitRc,           \* outcome of the commit of the current call: "none", "ok", "fail"
    applyOks,           \* number of apply_patch calls that returned True
    rbPc,               \* position inside run_build ("idle": not inside)
    childPc,            \* build process: "none", "running", "closed", "exited"
    returncode,         \* exit code of the build process (NoInt: still running)
    produced,           \* lines the build process has written to its stdout
    p_stdout,           \* lines in the pipe, written and not yet read
    line,               \* line the loop of run_build holds ("": none)
    console,            \* lines echoed to the controller's own stdout
    logFile,            \* lines of build.log
    buildRc             \* value run_build returned (NoInt: not returned)

config == <<PROVIDER, FALLBACK_PROVIDER, MAX_ATTEMPTS, hasKey>>
repo == <<gitExists, head, tree, snapWritten, snapshot, initSnapshots>>
loop == <<code, attempts, builds, buildLog>>
calls == <<openaiCalls, llamaCalls, openaiPrompt, llamaPrompt, primaryExc, answeredBy>>
query == <<prompt, llm_out, queries, calls>>
call == <<cmds, commitRc, applyOks>>
patch == <<diff, applied, extracted, snapInCall, applyRc, preTree, applyCmds, call>>
final == <<exc, exit, ending>>
stream == <<rbPc, childPc, returncode, produced, p_stdout, line, console, logFile, buildRc>>
vars == <<config, pc, repo, loop, query, patch, final, stream>>

\* Nothing has run yet: no build, no query, no patch, no result.
Fresh ==
    /\ snapWritten = FALSE
    /\ snapshot = <<>>
    /\ buildLog = {}
    /\ code = NoInt
    /\ attempts = 0
    /\ prompt = NoPrompt
    /\ diff = EmptyText
    /\ applied = "none"
    /\ exc = NoExc
    /\ exit = NoInt
    /\ ending = "none"
    /\ builds = 0
    /\ queries = 0
    /\ applyCmds = 0
    /\ initSnapshots = 0
    /\ openaiCalls = 0
    /\ llamaCalls = 0
    /\ openaiPrompt = NoPrompt
    /\ llamaPrompt = NoPrompt
    /\ primaryExc = NoExc
    /\ answeredBy = "none"
    /\ extracted = "none"
    /\ snapInCall = FALSE
    /\ applyRc = "none"
    /\ preTree = NoInt
    /\ cmds = <<>>
    /\ commitRc = "none"
    /\ applyOks = 0
    /\ rbPc = "idle"
    /\ childPc = "none"
    /\ returncode = NoInt
    /\ produced = <<>>
    /\ p_stdout = <<>>
    /\ line = ""
    /\ console = <<>>
    /\ buildRc = NoInt

\* The state main starts in: the configuration read from the environment
\* (lines 4-13) and the project directory as it is found.
Init ==
    /\ PROVIDER \in Providers
    /\ FALLBACK_PROVIDER \in Fallbacks
    /\ MAX_ATTEMPTS \in Budgets
    /\ hasKey \in BOOLEAN
    /\ pc = "start"
    /\ gitExists \in BOOLEAN
    /\ tree \in Content
    /\ head \in IF gitExists THEN Content \cup {NoInt} ELSE {NoInt}
    /\ llm_out = EmptyText
    /\ logFile = <<>>
    /\ Fresh

\* ------------------------------------------------------------ main: start
\* main, lines 154-159: no .git -> git init, add -A, commit "initial snapshot".
InitialSnapshot_Always ==
    /\ pc = "start"
    /\ gitExists' = TRUE
    /\ head' = tree
    /\ initSnapshots' = initSnapshots + 1
    /\ pc' = "build"
    /\ UNCHANGED <<config, stream, tree, snapWritten, snapshot, loop, query, patch, final>>
InitialSnapshot ==
    /\ pc = "start"
    /\ ~gitExists
    /\ gitExists' = TRUE
    /\ head' = tree
    /\ initSnapshots' = initSnapshots + 1
    /\ pc' = "build"
    /\ UNCHANGED <<config, stream, tree, snapWritten, snapshot, loop, query, patch, final>>

KeepHistory ==
    /\ pc = "start"
    /\ gitExists
    /\ pc' = "build"
    /\ UNCHANGED <<config, stream, repo, loop, query, patch, final>>

\* ------------------------------------------------------------- main: build
\* return 0 (lines 164 and 193) and return 1 (line 197)
SuccessExit == 0
FailureExit_AsSuccess == SuccessExit
FailureExit == 1

\* code == 0 (lines 162 and 191)
Succeeded_Inverted(c) == c # 0
Succeeded(c) == c = 0

\* return 0 (lines 164 and 193)
ReturnSuccess ==
    /\ pc' = "done"
    /\ exit' = SuccessExit
    /\ ending' = "Success"
    /\ exc' = exc

\* run_build, lines 69-76: build.log is overwritten, the exit code returned.
run_build_Append(c) ==
    /\ builds' = builds + 1
    /\ buildLog' = buildLog \cup {builds + 1}
    /\ code' = c
run_build(c) ==
    /\ builds' = builds + 1
    /\ buildLog' = {builds + 1}
    /\ code' = c

\* main, lines 161-166
FirstBuild ==
    /\ pc = "build"
    /\ \E c \in ExitCodes :
        /\ run_build(c)
        /\ IF Succeeded(c)
           THEN ReturnSuccess
           ELSE pc' = "while" /\ UNCHANGED final
    /\ attempts' = 0
    /\ UNCHANGED <<config, stream, repo, query, patch>>

\* main, lines 190-193
Rebuild ==
    /\ pc = "rebuild"
    /\ \E c \in ExitCodes :
        /\ run_build(c)
        /\ IF Succeeded(c)
           THEN ReturnSuccess
           ELSE pc' = "while" /\ UNCHANGED final
    /\ UNCHANGED <<config, stream, repo, attempts, query, patch>>

\* -------------------------------------------------------------- main: loop
\* while attempts < MAX_ATTEMPTS (line 167)
LoopCondition_OffByOne == attempts <= MAX_ATTEMPTS
LoopCondition == attempts < MAX_ATTEMPTS

\* lines 167-169: enter an iteration
LoopEnter ==
    /\ pc = "while"
    /\ LoopCondition
    /\ attempts' = attempts + 1
    /\ pc' = "context"
    /\ diff' = EmptyText
    /\ applied' = "none"
    /\ extracted' = "none"
    /\ snapInCall' = FALSE
    /\ applyRc' = "none"
    /\ preTree' = NoInt
    /\ cmds' = <<>>
    /\ commitRc' = "none"
    /\ UNCHANGED <<config, stream, repo, code, builds, buildLog, query, applyCmds,
                   applyOks, final>>

\* line 167 false: the loop ends with the budget used up
LoopExhausted ==
    /\ pc = "while"
    /\ ~LoopCondition
    /\ ending' = "Exhausted"
    /\ pc' = "report"
    /\ UNCHANGED <<config, stream, repo, loop, query, patch, exc, exit>>

\* break (lines 180 and 188): on to the code after the loop, line 195
BreakTarget_Continue == "while"
BreakTarget == "report"

\* lines 170-175: the prompt holds the tail of build.log as it is now
BuildPrompt ==
    /\ pc = "context"
    /\ prompt' = [attempt |-> attempts, tail |-> buildLog]
    /\ pc' = "call_llm"
    /\ UNCHANGED <<config, stream, repo, loop, llm_out, queries, calls, patch, final>>

\* lines 195-197
Report ==
    /\ pc = "report"
    /\ pc' = "done"
    /\ exit' = FailureExit
    /\ UNCHANGED <<config, stream, repo, loop, query, patch, exc, ending>>

\* An exception leaves main: traceback, process exit code 1.
Crash(e) ==
    /\ pc' = "done"
    /\ exc' = e
    /\ exit' = 1
    /\ ending' = "QueryFailed"

\* ------------------------------------------------------------ model client
\* _call_openai, lines 78-102: what it raises (NoExc: it returns the content).
\*   line 79   os.environ["OPENAI_API_KEY"]   KeyError when unset
\*   line 93   requests.post                  a requests exception on timeout
\*   line 94   status_code >= 400             RuntimeError("openai_error:...")
\*   line 102  data["choices"]...             KeyError on an unexpected body
OpenaiRaises(keySet, answered, status, bodyOk) ==
    IF ~keySet THEN MissingKey
    ELSE IF ~answered THEN RequestFailed
    ELSE IF status >= HTTP_ERROR_FLOOR THEN OpenaiError
    ELSE IF ~bodyOk THEN BadBody
    ELSE NoExc

\* call_llm, lines 116-117: except RuntimeError as e, "openai_error" in str(e)
\* and FALLBACK_PROVIDER == "llama".
FallbackEligible_Never(e) == FALSE
FallbackEligible_AnyError(e) == FALLBACK_PROVIDER = "llama"
FallbackEligible(e) ==
    /\ e.type = "RuntimeError"
    /\ e.msg = "openai_error"
    /\ FALLBACK_PROVIDER = "llama"

\* call_llm, lines 113-124: the branch taken for a provider setting.
Dispatch_UnknownAsOpenai(p) == IF p = "llama" THEN "llama" ELSE "openai"
Dispatch_LlamaAsOpenai(p) == IF p \in {"openai", "llama"} THEN "openai" ELSE "raise"
Dispatch(p) ==
    IF p = "openai" THEN "openai"
    ELSE IF p = "llama" THEN "llama"
    ELSE "raise"

\* main line 176 calls call_llm; lines 113, 121, 123-124.
CallLlm ==
    /\ pc = "call_llm"
    /\ queries' = queries + 1
    /\ openaiCalls' = 0
    /\ llamaCalls' = 0
    /\ openaiPrompt' = NoPrompt
    /\ llamaPrompt' = NoPrompt
    /\ primaryExc' = NoExc
    /\ answeredBy' = "none"
    /\ IF Dispatch(PROVIDER) = "raise"
       THEN Crash(UnknownProvider)
       ELSE pc' = Dispatch(PROVIDER) /\ UNCHANGED final
    /\ UNCHANGED <<config, stream, repo, loop, prompt, llm_out, patch>>

\* call_llm lines 114-120 around _call_openai
CallOpenai ==
    /\ pc = "openai"
    /\ openaiCalls' = openaiCalls + 1
    /\ openaiPrompt' = prompt
    /\ \E answered \in BOOLEAN, status \in Statuses, bodyOk \in BOOLEAN :
         LET e == OpenaiRaises(hasKey, answered, status, bodyOk)
         IN  /\ primaryExc' = e
             /\ IF e = NoExc
                THEN /\ \E text \in Texts : llm_out' = text
                     /\ answeredBy' = "openai"
                     /\ pc' = "extract"
                     /\ UNCHANGED final
                ELSE IF FallbackEligible(e)
                THEN /\ pc' = "llama"
                     /\ UNCHANGED <<llm_out, answeredBy, final>>
                ELSE /\ Crash(e)
                     /\ UNCHANGED <<llm_out, answeredBy>>
    /\ UNCHANGED <<config, stream, repo, loop, prompt, queries, llamaCalls, llamaPrompt, patch>>

\* _call_llama, lines 104-110, called from line 119 or line 122
CallLlama ==
    /\ pc = "llama"
    /\ llamaCalls' = llamaCalls + 1
    /\ llamaPrompt' = prompt
    /\ \E rc \in ExitCodes :
         IF rc # 0
         THEN /\ Crash(LlamaFailed)
              /\ UNCHANGED <<llm_out, answeredBy>>
         ELSE /\ \E text \in Texts : llm_out' = text
              /\ answeredBy' = "llama"
              /\ pc' = "extract"
              /\ UNCHANGED final
    /\ UNCHANGED <<config, stream, repo, loop, prompt, queries, openaiCalls, openaiPrompt,
                   primaryExc, patch>>

\* ----------------------------------------------------------- diff extractor
Range(s) == {s[i] : i \in 1..Len(s)}

\* The line ends in "\n": it is not the last one, or the text ends in "\n".
Terminated(text, i) == i < Len(text.lines) \/ text.nl

\* re.search(r'(?ms)^--- [^\n]+\n\+\+\+ [^\n]+\n', text) matches at line i.
HeaderAt_NoNewline(text, i) ==
    /\ i + 1 <= Len(text.lines)
    /\ text.lines[i] = "minus"
    /\ text.lines[i + 1] = "plus"
HeaderAt(text, i) ==
    /\ i + 1 <= Len(text.lines)
    /\ text.lines[i] = "minus"
    /\ text.lines[i + 1] = "plus"
    /\ Terminated(text, i + 1)

\* str.strip() of a text that starts with a header line: the blank lines and
\* the newline at its end go.
RECURSIVE Strip(_)
Strip(lines) ==
    IF lines # <<>> /\ lines[Len(lines)] = "blank"
    THEN Strip(SubSeq(lines, 1, Len(lines) - 1))
    ELSE lines

\* extract_unified_diff, lines 126-131
extract_unified_diff(text) ==
    LET starts == {i \in 1..Len(text.lines) : HeaderAt(text, i)}
    IN  IF starts = {}
        THEN [found |-> FALSE, text |-> EmptyText]
        ELSE LET start == CHOOSE i \in starts : \A j \in starts : i <= j
             IN  [found |-> TRUE,
                  text |-> [lines |-> Strip(SubSeq(text.lines, start, Len(text.lines))),
                            nl |-> FALSE]]

\* main, lines 177-180 (and apply_patch lines 134-136 when a diff is found)
Extract ==
    /\ pc = "extract"
    /\ LET r == extract_unified_diff(llm_out)
       IN  IF r.found /\ r.text # EmptyText
           THEN /\ diff' = r.text
                /\ extracted' = "found"
                /\ pc' = "ap_add1"
                /\ UNCHANGED final
           ELSE /\ diff' = EmptyText
                /\ extracted' = "absent"
                /\ ending' = "NoPatch"
                /\ pc' = BreakTarget
                /\ UNCHANGED <<exc, exit>>
    /\ llm_out' = EmptyText
    /\ UNCHANGED <<config, stream, repo, loop, prompt, queries, calls, applied, snapInCall,
                   applyRc, preTree, applyCmds, call>>

\* ------------------------------------------------------------ patch applier
\* apply_patch, lines 138-142: the commands of the try block, in order.
ApplyPatchSteps_ApplyFirst == <<"ap_add1", "ap_apply", "ap_snapshot", "ap_add2", "ap_commit">>
ApplyPatchSteps == <<"ap_add1", "ap_snapshot", "ap_apply", "ap_add2", "ap_commit">>

\* The statement after step s; after the last one, return True (line 143).
StepAfter(s) ==
    LET i == CHOOSE k \in 1..Len(ApplyPatchSteps) : ApplyPatchSteps[k] = s
    IN  IF i < Len(ApplyPatchSteps) THEN ApplyPatchSteps[i + 1] ELSE "ap_true"

\* lines 138 and 141: git add -A
GitAdd ==
    /\ pc \in {"ap_add1", "ap_add2"}
    /\ pc' = StepAfter(pc)
    /\ cmds' = Append(cmds, "add")
    /\ UNCHANGED <<config, stream, repo, loop, query, diff, applied, extracted, snapInCall,
                   applyRc, preTree, applyCmds, commitRc, applyOks, final>>

\* line 139: git diff --staged > .pre_ai_fix.patch
Snapshot_NotWritten ==
    /\ pc = "ap_snapshot"
    /\ pc' = StepAfter(pc)
    /\ cmds' = Append(cmds, "snapshot")
    /\ UNCHANGED <<config, stream, repo, loop, query, diff, applied, extracted, snapInCall,
                   applyRc, preTree, applyCmds, commitRc, applyOks, final>>
Snapshot ==
    /\ pc = "ap_snapshot"
    /\ snapshot' = Diff(head, tree)
    /\ snapWritten' = TRUE
    /\ snapInCall' = TRUE
    /\ pc' = StepAfter(pc)
    /\ cmds' = Append(cmds, "snapshot")
    /\ UNCHANGED <<config, stream, gitExists, head, tree, initSnapshots, loop, query,
                   diff, applied, extracted, applyRc, preTree, applyCmds, commitRc,
                   applyOks, final>>

\* What the hunks of a diff text can say: nothing when it has no line that
\* could be a hunk (headers only).
PatchEffects(d) == IF "text" \in Range(d.lines) THEN Hunks \cup {<<>>} ELSE {<<>>}

\* git apply --reject: a hunk that matches the tree is applied, one that does
\* not is rejected.
GitApply(t, h) == IF h # <<>> /\ t = h[1] THEN h[2] ELSE t

\* line 140: git apply --reject --whitespace=fix <tmp>, run without check=True.
\* The command exits nonzero when a hunk was rejected or the patch is unusable.
ApplyCmd ==
    /\ pc = "ap_apply"
    /\ applyCmds' = applyCmds + 1
    /\ preTree' = tree
    /\ \E h \in PatchEffects(diff), rc \in {"ok", "fail"} :
        /\ (h # <<>> /\ tree # h[1]) => rc = "fail"
        /\ tree' = GitApply(tree, h)
        /\ applyRc' = rc
    /\ pc' = StepAfter(pc)
    /\ cmds' = Append(cmds, "apply")
    /\ UNCHANGED <<config, stream, gitExists, head, snapWritten, snapshot, initSnapshots,
                   loop, query, diff, applied, extracted, snapInCall, commitRc, applyOks,
                   final>>

\* line 142: git commit ... || true; a failing commit leaves HEAD where it was,
\* and a commit with nothing staged against HEAD fails. The "|| true" makes
\* the shell exit 0 either way.
Commit_Checked ==
    /\ pc = "ap_commit"
    /\ \E done \in BOOLEAN :
        /\ tree = head => ~done
        /\ head' = IF done THEN tree ELSE head
        /\ commitRc' = IF done THEN "ok" ELSE "fail"
        /\ pc' = IF done THEN StepAfter(pc) ELSE "ap_ret"
        /\ applied' = IF done THEN applied ELSE "false"
    /\ cmds' = Append(cmds, "commit")
    /\ UNCHANGED <<config, stream, gitExists, tree, snapWritten, snapshot, initSnapshots,
                   loop, query, diff, extracted, snapInCall, applyRc, preTree,
                   applyCmds, applyOks, final>>
Commit ==
    /\ pc = "ap_commit"
    /\ \E done \in BOOLEAN :
        /\ tree = head => ~done
        /\ head' = IF done THEN tree ELSE head
        /\ commitRc' = IF done THEN "ok" ELSE "fail"
    /\ cmds' = Append(cmds, "commit")
    /\ pc' = StepAfter(pc)
    /\ UNCHANGED <<config, stream, gitExists, tree, snapWritten, snapshot, initSnapshots,
                   loop, query, diff, applied, extracted, snapInCall, applyRc, preTree,
                   applyCmds, applyOks, final>>

\* line 143: return True
ReturnTrue ==
    /\ pc = "ap_true"
    /\ applied' = "true"
    /\ applyOks' = applyOks + 1
    /\ pc' = "ap_ret"
    /\ UNCHANGED <<config, stream, repo, loop, query, diff, extracted, snapInCall, applyRc,
                   preTree, applyCmds, cmds, commitRc, final>>

\* lines 144-146: a command of the try block raises (the process cannot be
\* started, its output cannot be decoded): return False.
ReturnFalse ==
    /\ pc \in Range(ApplyPatchSteps)
    /\ applied' = "false"
    /\ IF pc = "ap_apply"
       THEN applyRc' = "raised" /\ applyCmds' = applyCmds + 1 /\ preTree' = tree
       ELSE UNCHANGED <<applyRc, applyCmds, preTree>>
    /\ pc' = "ap_ret"
    /\ UNCHANGED <<config, stream, repo, loop, query, diff, extracted, snapInCall, call,
                   final>>

\* main, lines 186-188
AfterApply_SkipRebuild ==
    /\ pc = "ap_ret"
    /\ IF applied = "true"
       THEN pc' = "while" /\ UNCHANGED final
       ELSE ending' = "ApplyFailed" /\ pc' = BreakTarget /\ UNCHANGED <<exc, exit>>
    /\ UNCHANGED <<config, stream, repo, loop, query, patch>>
AfterApply_AlwaysRebuild ==
    /\ pc = "ap_ret"
    /\ pc' = "rebuild"
    /\ UNCHANGED <<config, stream, repo, loop, query, patch, final>>
AfterApply ==
    /\ pc = "ap_ret"
    /\ IF applied = "true"
       THEN pc' = "rebuild" /\ UNCHANGED final
       ELSE ending' = "ApplyFailed" /\ pc' = BreakTarget /\ UNCHANGED <<exc, exit>>
    /\ UNCHANGED <<config, stream, repo, loop, query, patch>>

\* ------------------------------------------------------------ specification
Next ==
    \/ InitialSnapshot
    \/ KeepHistory
    \/ FirstBuild
    \/ LoopEnter
    \/ LoopExhausted
    \/ BuildPrompt
    \/ CallLlm
    \/ CallOpenai
    \/ CallLlama
    \/ Extract
    \/ GitAdd
    \/ Snapshot
    \/ ApplyCmd
    \/ Commit
    \/ ReturnTrue
    \/ ReturnFalse
    \/ AfterApply
    \/ Rebuild
    \/ Report

Spec == Init /\ [][Next]_vars

\* Every step of main is a blocking call that returns: the run keeps going.
FairSpec == Spec /\ WF_vars(Next)

TypeOK ==
    /\ pc \in {"start", "build", "while", "context", "call_llm", "openai", "llama",
               "extract", "ap_true", "ap_ret", "rebuild", "report", "done"}
              \cup Range(ApplyPatchSteps)
    /\ attempts \in 0..MaxBudget
    /\ tree \in Content
    /\ head \in Content \cup {NoInt}
    /\ exit \in {NoInt, 0, 1}

\* git apply -R .pre_ai_fix.patch, the revert the message of line 196 gives:
\* the recorded diff is undone when the tree holds its new side, and the
\* command fails, changing nothing, when it does not.
ReverseApply(d, t) == IF d # <<>> /\ t = d[2] THEN d[1] ELSE t

\* ------------------------------------------------------------------ claims
Endings == {"Success", "NoPatch", "ApplyFailed", "QueryFailed", "Exhausted"}

\* C1: if the first execution of the build command exits 0, the run is over
\* with exit code 0, returned from main, after exactly one build, no model
\* query and no patch-apply, whatever the configuration.
C1_FirstBuildPasses ==
    (builds = 1 /\ code = 0) =>
        /\ pc = "done"
        /\ exit = 0
        /\ exc = NoExc
        /\ queries = 0
        /\ applyCmds = 0
        /\ ~ENABLED Next

C1_Witness ==
    /\ builds = 1 /\ code = 0 /\ exit = 0
    /\ PROVIDER = "other" /\ MAX_ATTEMPTS = MaxBudget

\* C2: once a response holds no diff header pair the run ends with exit code
\* 1: no patch-apply, no rebuild and no further query follow, and a run whose
\* first response is malformed has made exactly one query.
C2_FailFast ==
    /\ [](extracted = "absent" =>
            /\ pc \in {"report", "done"}
            /\ ending = "NoPatch"
            /\ applyRc = "none"
            /\ pc = "done" => exit = 1)
    /\ [][extracted = "absent" =>
            /\ queries' = queries
            /\ builds' = builds
            /\ applyCmds' = applyCmds]_vars
    /\ []((pc = "done" /\ ending = "NoPatch" /\ builds = 1) => queries = 1)

C2_Witness ==
    /\ pc = "done" /\ ending = "NoPatch" /\ builds = 1
    /\ queries = 1 /\ MAX_ATTEMPTS = MaxBudget /\ exit = 1

\* C3 as stated: in every state the number of model queries equals
\* attempts_used and is at most MAX_ATTEMPTS (read, in the claim's favour, as
\* a bound that applies to budgets that are not negative).
C3_Original ==
    /\ queries = attempts
    /\ MAX_ATTEMPTS >= 0 => queries <= MAX_ATTEMPTS

\* C3 amended: the number of queries equals attempts_used except between the
\* increment of attempts_used and the query of the same iteration, where it is
\* attempts_used - 1; it never exceeds a budget that is not negative;
\* attempts_used never decreases and grows by one at a time.
C3_QueriesFollowAttempts ==
    /\ [](IF pc \in {"context", "call_llm"}
          THEN queries = attempts - 1
          ELSE queries = attempts)
    /\ [](MAX_ATTEMPTS >= 0 => (queries <= MAX_ATTEMPTS /\ attempts <= MAX_ATTEMPTS))
    /\ [](MAX_ATTEMPTS < 0 => (queries = 0 /\ attempts = 0))
    /\ [][attempts' = attempts \/ (attempts' = attempts + 1 /\ pc = "while")]_vars

C3_Witness == pc = "call_llm" /\ attempts = MaxBudget /\ queries = attempts - 1

\* C4: a run that returns from main exits 0 exactly when the most recent
\* build exited 0, and exits 1 when the attempts are exhausted, when the
\* response holds no diff and when the patch-apply failed.
C4_ExitCode ==
    (pc = "done" /\ exc = NoExc) =>
        /\ exit \in {0, 1}
        /\ exit = 0 <=> code = 0
        /\ ending \in {"Success", "Exhausted", "NoPatch", "ApplyFailed"}
        /\ ending = "Success" <=> exit = 0

C4_Witness == pc = "done" /\ ending = "ApplyFailed" /\ exit = 1 /\ builds = 2

\* C5: every run terminates, in one of the five endings, and no iteration
\* starts once attempts_used has reached MAX_ATTEMPTS.
C5_Terminates ==
    /\ <>(pc = "done")
    /\ [](pc = "done" => (ending \in Endings /\ ~ENABLED Next))
    /\ [][attempts >= MAX_ATTEMPTS => attempts' = attempts]_vars

C5_Witness ==
    /\ pc = "done" /\ ending = "Exhausted"
    /\ attempts = MAX_ATTEMPTS /\ MAX_ATTEMPTS = MaxBudget

\* C6 as stated: when the patch-apply command fails, apply_patch reports
\* false and the loop is left: no rebuild, no further query, exit code 1.
C6_ApplyFailureAborts ==
    (applyRc \in {"fail", "raised"} /\ applied # "none") =>
        /\ applied = "false"
        /\ pc \in {"ap_ret", "report", "done"}
        /\ pc = "done" => exit = 1

\* C7: the patch-apply command runs only after the snapshot file was written
\* in the same call of apply_patch, with the staged diff from HEAD of the tree
\* the patch is about to change, whether the apply then succeeds or fails.
C7_SnapshotFirst ==
    /\ applyRc # "none" => (snapInCall /\ snapWritten)
    /\ (applyRc = "raised" \/ pc \in {"ap_add2", "ap_commit"}) =>
            snapshot = Diff(head, preTree)

C7_Witness == applyRc = "fail" /\ snapInCall /\ snapshot # <<>> /\ attempts = 2

\* C8 as stated: after a patch-apply attempt, reversing .pre_ai_fix.patch
\* gives back the working tree of right before that attempt.
C8_ExactReversal ==
    applyRc \in {"ok", "fail"} => ReverseApply(snapshot, tree) = preTree

\* C9: primary configured, fallback configured, and the primary call fails
\* with a provider error: the primary is called once, the fallback once with
\* the same prompt, and the query returns the fallback's output or fails
\* with the fallback's failure.
C9_FallbackOnce ==
    (PROVIDER = "openai" /\ FALLBACK_PROVIDER = "llama" /\ primaryExc = OpenaiError) =>
        /\ openaiCalls = 1
        /\ llamaCalls <= 1
        /\ llamaCalls = 0 <=> pc = "llama"
        /\ llamaCalls = 1 =>
            /\ llamaPrompt = openaiPrompt
            /\ pc # "call_llm" => llamaPrompt = prompt
            /\ \/ answeredBy = "llama"
               \/ pc = "done" /\ exc = LlamaFailed /\ answeredBy = "none"

C9_Witness ==
    /\ primaryExc = OpenaiError /\ llamaCalls = 1 /\ answeredBy = "llama"
    /\ attempts = 2 /\ llamaPrompt = prompt

\* C10: primary configured, and the primary call fails with an error that is
\* no provider error, or with a provider error while no fallback is
\* configured: the fallback is not called, the error leaves the query, and the
\* run is over at once with a nonzero exit code.
C10_NoFallback ==
    (/\ PROVIDER = "openai"
     /\ primaryExc # NoExc
     /\ primaryExc # OpenaiError \/ FALLBACK_PROVIDER # "llama") =>
        /\ llamaCalls = 0
        /\ openaiCalls = 1
        /\ pc = "done"
        /\ exc = primaryExc
        /\ exit # NoInt /\ exit # 0
        /\ answeredBy = "none"
        /\ applyRc = "none"
        /\ ~ENABLED Next

C10_Witness ==
    /\ primaryExc = MissingKey /\ FALLBACK_PROVIDER = "llama" /\ pc = "done"
    /\ queries = 1 /\ builds = 1

\* ------------------------------------------------- the diff extractor alone
\* extract_unified_diff applied to one text: llm_out holds the argument, and
\* diff and extracted receive the result.
ExtractInputs ==
    {[lines |-> l, nl |-> b] : l \in SeqsUpTo(LineKinds, MaxTextLines), b \in BOOLEAN}

InitExtract ==
    /\ PROVIDER = "openai"
    /\ FALLBACK_PROVIDER = "llama"
    /\ MAX_ATTEMPTS = 1
    /\ hasKey = TRUE
    /\ pc = "x_call"
    /\ gitExists = TRUE
    /\ tree = 0
    /\ head = 0
    /\ llm_out \in ExtractInputs
    /\ logFile = <<>>
    /\ Fresh

\* diff = extract_unified_diff(llm_out), line 177
ExtractCall ==
    /\ pc = "x_call"
    /\ LET r == extract_unified_diff(llm_out)
       IN  /\ diff' = r.text
           /\ extracted' = IF r.found THEN "found" ELSE "absent"
    /\ pc' = "x_done"
    /\ UNCHANGED <<config, stream, repo, loop, query, applied, snapInCall, applyRc, preTree,
                   applyCmds, call, final>>

NextExtract == ExtractCall

SpecExtract == InitExtract /\ [][NextExtract]_vars

\* Line i starts a header pair as C11 words it: a "--- <token>" line with a
\* "+++ <token>" line right after it.
PairAt(text, i) ==
    /\ i \in 1..(Len(text.lines) - 1)
    /\ text.lines[i] = "minus"
    /\ text.lines[i + 1] = "plus"

\* d is text t from line i to its end, trimmed: what is cut off at the end are
\* blank lines only, and d does not end in a blank line or a newline.
TrimmedFrom(d, t, i) ==
    LET rest == SubSeq(t.lines, i, Len(t.lines))
    IN  /\ Len(d.lines) <= Len(rest)
        /\ d.lines = SubSeq(rest, 1, Len(d.lines))
        /\ \A k \in (Len(d.lines) + 1)..Len(rest) : rest[k] = "blank"
        /\ d.lines # <<>> /\ d.lines[Len(d.lines)] # "blank"
        /\ d.nl = FALSE

\* C11 as stated: the result is absent exactly when the text holds no header
\* pair, and otherwise it is the text from the first header pair to the end,
\* trimmed.
C11_Original ==
    pc = "x_done" =>
        LET pairs == {i \in 1..Len(llm_out.lines) : PairAt(llm_out, i)}
        IN  /\ extracted = "absent" <=> pairs = {}
            /\ extracted = "found" =>
                 \E i \in pairs : /\ \A j \in pairs : i <= j
                                  /\ TrimmedFrom(diff, llm_out, i)

\* C11 amended: a header pair counts only when its "+++ " line ends in a
\* newline; the result is absent exactly when the text holds no such pair, and
\* otherwise it is the text from the first such pair to the end, trimmed.
C11_ExtractsFromFirstHeader ==
    pc = "x_done" =>
        LET pairs == {i \in 1..Len(llm_out.lines) :
                         PairAt(llm_out, i) /\ (i + 1 < Len(llm_out.lines) \/ llm_out.nl)}
        IN  /\ extracted \in {"absent", "found"}
            /\ extracted = "absent" <=> pairs = {}
            /\ extracted = "absent" => diff = EmptyText
            /\ extracted = "found" =>
                 \E i \in pairs : /\ \A j \in pairs : i <= j
                                  /\ TrimmedFrom(diff, llm_out, i)

\* prose, a header pair, a hunk, a blank line at the end
C11_Witness ==
    /\ pc = "x_done" /\ extracted = "found"
    /\ llm_out = [lines |-> <<"text", "minus", "plus", "blank">>, nl |-> TRUE]
    /\ diff = [lines |-> <<"minus", "plus">>, nl |-> FALSE]

C13_PromptHoldsLatestLog ==
    /\ [][prompt' # prompt
            => /\ pc = "context" /\ builds >= 1 /\ code # 0
               /\ prompt'.attempt = attempts
               /\ prompt'.tail = {builds}]_vars
    /\ [](pc \in {"call_llm", "openai", "llama"}
            => (prompt.attempt = attempts /\ prompt.tail = {builds}))
    /\ [][(openaiPrompt' # openaiPrompt /\ openaiPrompt' # NoPrompt)
            => openaiPrompt'.tail = {builds}]_vars
    /\ [][(llamaPrompt' # llamaPrompt /\ llamaPrompt' # NoPrompt)
            => llamaPrompt'.tail = {builds}]_vars

\* the prompt of the second attempt holds the log of the second build only
C13_Witness ==
    /\ pc = "call_llm"
    /\ prompt = [attempt |-> 2, tail |-> {2}]

\* C14 as stated: a run that ends Exhausted terminates with failure, and the
\* snapshot its revert instruction names was written during this run, before
\* the last patch-apply.
C14_Original ==
    ending = "Exhausted" =>
        /\ pc = "done" => exit = FailureExit
        /\ snapWritten /\ snapInCall
        /\ applyRc # "none"

\* C14 amended: a run that ends Exhausted terminates with failure; when
\* MAX_ATTEMPTS >= 1, the snapshot its revert instruction names was written
\* during this run, in the last apply_patch call and before its patch-apply
\* command, from the tree that command found; when MAX_ATTEMPTS <= 0, the run
\* ends Exhausted right after the first failed build and no snapshot was
\* written.
C14_ExhaustedRevert ==
    ending = "Exhausted" =>
        /\ pc \in {"report", "done"}
        /\ exit = IF pc = "done" THEN FailureExit ELSE NoInt
        /\ attempts >= MAX_ATTEMPTS
        /\ code # 0
        /\ MAX_ATTEMPTS >= 1 =>
             /\ attempts = MAX_ATTEMPTS /\ applyOks = MAX_ATTEMPTS
             /\ snapWritten /\ snapInCall
             /\ cmds = <<"add", "snapshot", "apply", "add", "commit">>
             /\ applyRc \in {"ok", "fail"}
             /\ snapshot # <<>> => snapshot[2] = preTree
        /\ MAX_ATTEMPTS <= 0 =>
             /\ ~snapWritten
             /\ queries = 0 /\ builds = 1 /\ applyCmds = 0

\* two attempts, both patches applied, both rebuilds failed
C14_Witness ==
    /\ ending = "Exhausted" /\ pc = "done"
    /\ MAX_ATTEMPTS = 2 /\ applyCmds = 2
    /\ snapshot # <<>>

\* C15 as stated: every run configured with an unknown provider ends in
\* failure (nonzero exit), without invoking either backend, without fallback
\* and without retry.
C15_Original ==
    PROVIDER \notin {"openai", "llama"} =>
        /\ pc = "done" => exit # SuccessExit
        /\ openaiCalls = 0 /\ llamaCalls = 0
        /\ queries <= 1

\* C15 amended: a run configured with an unknown provider never invokes either
\* backend; its first query raises at once and ends the run with a nonzero
\* exit code, without fallback, retry or patch; it exits 0 exactly when the
\* first build passes, and then no query is made at all.
C15_UnknownProviderFatal ==
    PROVIDER \notin {"openai", "llama"} =>
        /\ openaiCalls = 0 /\ llamaCalls = 0
        /\ openaiPrompt = NoPrompt /\ llamaPrompt = NoPrompt
        /\ primaryExc = NoExc /\ answeredBy = "none"
        /\ queries <= 1 /\ builds <= 1 /\ applyCmds = 0
        /\ queries = 1 =>
             /\ pc = "done" /\ exc = UnknownProvider
             /\ exit = FailureExit /\ ending = "QueryFailed"
             /\ attempts = 1 /\ code # 0
        /\ (pc = "done" /\ exit = SuccessExit) => (queries = 0 /\ code = 0)
        /\ (pc = "done" /\ queries = 0 /\ exit # SuccessExit)
             => (ending = "Exhausted" /\ MAX_ATTEMPTS <= 0)

\* the first build failed and the only query raised
C15_Witness ==
    /\ PROVIDER = "other" /\ FALLBACK_PROVIDER = "llama"
    /\ pc = "done" /\ exc = UnknownProvider /\ queries = 1

\* C16: when the configured backend is llama, every query invokes the local
\* backend exactly once and never the primary; a failure of the local backend
\* (nonzero exit) is raised as it is and ends the run.
C16_LlamaDirect ==
    PROVIDER = "llama" =>
        /\ openaiCalls = 0 /\ openaiPrompt = NoPrompt /\ primaryExc = NoExc
        /\ llamaCalls = IF queries = 0 \/ pc = "llama" THEN 0 ELSE 1
        /\ pc # "openai"
        /\ answeredBy \in {"none", "llama"}
        /\ exc \in {NoExc, LlamaFailed}
        /\ exc = LlamaFailed =>
             /\ pc = "done" /\ exit = FailureExit /\ ending = "QueryFailed"
             /\ answeredBy = "none" /\ llamaCalls = 1
             /\ applyCmds = queries - 1 /\ builds = queries

\* the local backend fails on the second query
C16_Witness ==
    /\ PROVIDER = "llama" /\ exc = LlamaFailed
    /\ queries = 2 /\ llamaCalls = 1

\* The order of commands C17 states.
StatedOrder == <<"add", "snapshot", "apply", "add", "commit">>

\* C17: within apply_patch the commands run in the order stage, snapshot,
\* apply, stage, commit; the commit is attempted in every call in which no
\* command raised, also when the apply changed nothing; a failing commit
\* neither raises nor turns the result into false.
C17_StepOrder ==
    /\ [](Len(cmds) <= Len(StatedOrder) /\ cmds = SubSeq(StatedOrder, 1, Len(cmds)))
    /\ [](pc \in Range(ApplyPatchSteps) => pc = ApplyPatchSteps[Len(cmds) + 1])
    /\ [](applied = "true" => (cmds = StatedOrder /\ commitRc \in {"ok", "fail"}))
    /\ [](applied = "false" => (Len(cmds) < Len(StatedOrder) /\ commitRc = "none"))
    /\ [](applyRc = "raised" => (cmds = SubSeq(StatedOrder, 1, 2) /\ applied = "false"))
    /\ [][(commitRc = "none" /\ commitRc' # "none")
            => (pc' = "ap_true" /\ applied' = "none" /\ UNCHANGED final)]_vars
    /\ [][pc = "ap_true" => (applied' = "true" /\ pc' = "ap_ret")]_vars
    /\ [][(pc = "ap_ret" /\ commitRc = "fail") => pc' = "rebuild"]_vars

\* the apply changed nothing, the commit failed, apply_patch returned True
C17_Witness ==
    /\ applied = "true" /\ commitRc = "fail"
    /\ applyRc = "ok" /\ tree = preTree
    /\ pc = "rebuild"

\* ------------------------------------------------------ run_build, streamed
\* run_build (lines 69-76) step by step, next to the build process it starts:
\* the process writes lines into the pipe, the loop of line 72 reads them.
BuildLines == {"out", "err"}
OldLogs == {<<>>, <<"old">>}
mainVars == <<config, pc, repo, loop, query, patch, final>>

InitBuild ==
    /\ PROVIDER = "openai"
    /\ FALLBACK_PROVIDER = "llama"
    /\ MAX_ATTEMPTS = 1
    /\ hasKey = TRUE
    /\ pc = "build"
    /\ gitExists = TRUE
    /\ tree = 0
    /\ head = 0
    /\ llm_out = EmptyText
    /\ logFile \in OldLogs
    /\ Fresh

\* line 70: open(build.log, "wb") truncates the file
OpenLog ==
    /\ rbPc = "idle"
    /\ logFile' = <<>>
    /\ rbPc' = "popen"
    /\ UNCHANGED <<mainVars, childPc, returncode, produced, p_stdout, line, console, buildRc>>

\* line 71: subprocess.Popen(BUILD_CMD, stdout=PIPE, stderr=STDOUT)
Popen ==
    /\ rbPc = "popen"
    /\ childPc' = "running"
    /\ rbPc' = "read"
    /\ UNCHANGED <<mainVars, returncode, produced, p_stdout, line, console, logFile, buildRc>>

\* The build process writes a line; it blocks while the pipe is full.
ChildWrite ==
    /\ childPc = "running"
    /\ Len(produced) < MaxOutput
    /\ Len(p_stdout) < PipeCap
    /\ \E l \in BuildLines :
        /\ produced' = Append(produced, l)
        /\ p_stdout' = Append(p_stdout, l)
    /\ UNCHANGED <<mainVars, rbPc, childPc, returncode, line, console, logFile, buildRc>>

\* The build process closes its end of the pipe.
ChildClose ==
    /\ childPc = "running"
    /\ childPc' = "closed"
    /\ UNCHANGED <<mainVars, rbPc, returncode, produced, p_stdout, line, console, logFile,
                   buildRc>>

\* The build process exits.
ChildExit ==
    /\ childPc = "closed"
    /\ childPc' = "exited"
    /\ returncode' \in ExitCodes
    /\ UNCHANGED <<mainVars, rbPc, produced, p_stdout, line, console, logFile, buildRc>>

\* line 72: for line in p.stdout, a line is there
ReadLine ==
    /\ rbPc = "read"
    /\ p_stdout # <<>>
    /\ line' = Head(p_stdout)
    /\ p_stdout' = Tail(p_stdout)
    /\ rbPc' = "echo"
    /\ UNCHANGED <<mainVars, childPc, returncode, produced, console, logFile, buildRc>>

\* line 72: end of file, the pipe is empty and its write end is closed
ReadEof_Early ==
    /\ rbPc = "read"
    /\ p_stdout = <<>>
    /\ childPc # "none"
    /\ rbPc' = "close"
    /\ UNCHANGED <<mainVars, childPc, returncode, produced, p_stdout, line, console,
                   logFile, buildRc>>
ReadEof ==
    /\ rbPc = "read"
    /\ p_stdout = <<>>
    /\ childPc \in {"closed", "exited"}
    /\ rbPc' = "close"
    /\ UNCHANGED <<mainVars, childPc, returncode, produced, p_stdout, line, console,
                   logFile, buildRc>>

\* line 73: sys.stdout.buffer.write(line)
Echo ==
    /\ rbPc = "echo"
    /\ console' = Append(console, line)
    /\ rbPc' = "write"
    /\ UNCHANGED <<mainVars, childPc, returncode, produced, p_stdout, line, logFile, buildRc>>

\* line 74: f.write(line)
WriteLog ==
    /\ rbPc = "write"
    /\ logFile' = Append(logFile, line)
    /\ line' = ""
    /\ rbPc' = "read"
    /\ UNCHANGED <<mainVars, childPc, returncode, produced, p_stdout, console, buildRc>>

\* end of the with block of line 70: build.log is closed
CloseLog ==
    /\ rbPc = "close"
    /\ rbPc' = "wait"
    /\ UNCHANGED <<mainVars, childPc, returncode, produced, p_stdout, line, console,
                   logFile, buildRc>>

\* line 76: return p.wait(), which blocks until the process has exited
Wait ==
    /\ rbPc = "wait"
    /\ childPc = "exited"
    /\ buildRc' = returncode
    /\ rbPc' = "returned"
    /\ UNCHANGED <<mainVars, childPc, returncode, produced, p_stdout, line, console, logFile>>

NextBuild ==
    \/ OpenLog
    \/ Popen
    \/ ChildWrite
    \/ ChildClose
    \/ ChildExit
    \/ ReadLine
    \/ ReadEof
    \/ Echo
    \/ WriteLog
    \/ CloseLog
    \/ Wait

SpecBuild == InitBuild /\ [][NextBuild]_vars

\* The line the loop holds and has not written to build.log yet.
InHand == IF rbPc \in {"echo", "write"} THEN <<line>> ELSE <<>>

\* C18: run_build returns the exit code only after the pipe was drained to
\* end of file, and build.log then holds every line the build process wrote,
\* in order, none lost or twice, whatever the interleaving of the two; up to
\* then the lines written are those in build.log, in hand and in the pipe.
C18_LogHoldsAllOutput ==
    /\ rbPc \notin {"idle", "popen"} => logFile \o InHand \o p_stdout = produced
    /\ rbPc \in {"close", "wait", "returned"} =>
         /\ p_stdout = <<>> /\ childPc \in {"closed", "exited"}
         /\ logFile = produced /\ console = produced
    /\ buildRc # NoInt <=> rbPc = "returned"
    /\ rbPc = "returned" =>
         /\ childPc = "exited" /\ buildRc = returncode
         /\ Len(logFile) <= MaxOutput

\* three lines went through a pipe of two, over a log of an earlier build
C18_Witness ==
    /\ rbPc = "returned" /\ buildRc = 1
    /\ logFile = <<"out", "err", "out">>

\* C19: the initial repository snapshot is taken at most once per run, only
\* when there is no version-control history at the start, before the first
\* build and before any patch-apply; when history exists at the start, none
\* is taken.
C19_InitialSnapshotOnce ==
    /\ [](initSnapshots <= 1)
    /\ [](pc = "start" => (initSnapshots = 0 /\ builds = 0 /\ applyCmds = 0))
    /\ [](pc # "start" => gitExists)
    /\ [][initSnapshots' # initSnapshots
            => /\ pc = "start" /\ ~gitExists /\ head = NoInt
               /\ builds = 0 /\ queries = 0 /\ applyCmds = 0
               /\ initSnapshots' = 1 /\ gitExists' /\ head' = tree
               /\ pc' = "build"]_vars
    /\ [][(pc = "start" /\ head # NoInt)
            => (initSnapshots' = 0 /\ head' = head /\ pc' = "build")]_vars
    /\ [][pc # "start" => initSnapshots' = initSnapshots]_vars

\* a directory without a repository: one initial snapshot, then builds and a
\* patch
C19_Witness ==
    /\ initSnapshots = 1
    /\ builds = 2 /\ applyCmds = 1

\* C20 as stated, from the first build on: the number of builds is 1 plus the
\* number of patch-applies that reported success, hence at most
\* MAX_ATTEMPTS + 1 (for a budget that is not negative).
C20_Original ==
    pc \notin {"start", "build"} =>
        /\ builds = 1 + applyOks
        /\ MAX_ATTEMPTS >= 0 => builds <= MAX_ATTEMPTS + 1

\* A patch-apply has reported success and its rebuild has not run yet.
RebuildDue == applied = "true" /\ pc \in {"ap_ret", "rebuild"}

\* C20 amended: from the first build on, the number of builds is 1 plus the
\* number of patch-applies that reported success, except while the rebuild
\* after a successful patch-apply is still due, where the two are equal; it is
\* at most MAX_ATTEMPTS + 1 (1 for a negative budget); a query is issued only
\* when the latest build exited nonzero; each patch-apply uses the diff
\* extracted from the response of its own iteration, at most one per query.
C20_BuildCount ==
    /\ [](pc \in {"start", "build"} => (builds = 0 /\ applyOks = 0))
    /\ [](pc \notin {"start", "build"}
            => builds = IF RebuildDue THEN applyOks ELSE 1 + applyOks)
    /\ [](builds <= 1 + (IF MAX_ATTEMPTS > 0 THEN MAX_ATTEMPTS ELSE 0))
    /\ [](applyOks <= applyCmds /\ applyCmds <= queries)
    /\ [][queries' # queries => (builds >= 1 /\ code # 0 /\ ~RebuildDue)]_vars
    /\ [][applyCmds' # applyCmds
            => (extracted = "found" /\ diff # EmptyText /\ applyCmds' = queries)]_vars
    /\ [][(pc = "extract" /\ pc' = "ap_add1")
            => (answeredBy # "none" /\ diff' = extract_unified_diff(llm_out).text)]_vars
    /\ [][(pc \in Range(ApplyPatchSteps)) => diff' = diff]_vars
    /\ [](pc \in {"context", "call_llm", "openai", "llama", "extract"}
            => diff = EmptyText)

\* the whole budget of two used: three builds, two successful patch-applies
C20_Witness ==
    /\ MAX_ATTEMPTS = 2 /\ pc = "while"
    /\ builds = 3 /\ applyOks = 2 /\ queries = 2
====
